---- MODULE Spec2Model ----
(***************************************************************************)
(* A model of symbolfetcher (src/src/windows.rs, src/src/main.rs).         *)
(*                                                                         *)
(* Text is modelled as the sequence of its bytes (a Rust String is UTF-8): *)
(* <<97, 46, 112>> is "a.p".  Option<T> is a sequence of at most one       *)
(* element: None is <<>> and Some(x) is <<x>>.                             *)
(***************************************************************************)
EXTENDS Integers, Sequences, FiniteSets, TLC

VARIABLES
    dir,        \* the entries of <folder>/System32 in listing order
    listing,    \* outcome of read_dir: "ok", "open_err" or "entry_err"
    pc,         \* position of main
    pdbs,       \* main: the Vec<PdbMeta> returned by fetch_system32_pdbs
    idx,        \* main: 1-based position of the for loop in pdbs
    fs,         \* the paths that exist on disk
    attempts,   \* download: attempts
    delay,      \* download: delay, in seconds
    fetched,    \* download: calls of reqwest::blocking::get made by this call
    slept,      \* download: the delays passed to thread::sleep by this call
    last,       \* download: outcome of the latest reqwest::blocking::get
    result,     \* download: the returned Option<Vec<u8>>
    input,      \* argument of the function under study (function specifications)
    output      \* its result, <<>> before it ran, <<r>> after

mainVars == <<dir, listing, pc, pdbs, idx, fs>>
dlVars == <<attempts, delay, fetched, slept, last, result>>
fnVars == <<input, output>>
vars == <<dir, listing, pc, pdbs, idx, fs, attempts, delay, fetched, slept, last,
          result, input, output>>

None == <<>>
Some(x) == <<x>>

(***************************************************************************)
(* Bounds of the model.                                                    *)
(***************************************************************************)
\* longest System32 listing of the specifications Spec and SpecExtract
MaxFiles == 2
\* number of bytes of the name field that are enumerated; the rest is filler
MaxNameBytes == 5
\* longest directory entry name stem enumerated by SpecFilter
MaxStem == 2

(***************************************************************************)
(* Program constants.                                                      *)
(***************************************************************************)
MIN_PDB_NAME_LEN == 4
max_attempts == 5
\* DDRaw, #[repr(C, packed)]: magic 4, guid 16, age 4, name 255
MagicLen == 4
GuidLen == 16
AgeLen == 4
NameFieldLen == 255
DDRawSize == MagicLen + GuidLen + AgeLen + NameFieldLen

(***************************************************************************)
(* Byte and text helpers.                                                  *)
(***************************************************************************)
MinOf(S) == CHOOSE x \in S : \A y \in S : x <= y

\* str::from_utf8: is the byte sequence s well-formed UTF-8 from index i on
InRange(s, i, lo, hi) == i <= Len(s) /\ s[i] >= lo /\ s[i] <= hi
Cont(s, i) == InRange(s, i, 128, 191)

RECURSIVE Utf8From(_, _)
Utf8From(s, i) ==
    IF i > Len(s) THEN TRUE
    ELSE LET b == s[i] IN
         CASE b <= 127 -> Utf8From(s, i + 1)
           [] b >= 194 /\ b <= 223 -> Cont(s, i + 1) /\ Utf8From(s, i + 2)
           [] b = 224 -> InRange(s, i + 1, 160, 191) /\ Cont(s, i + 2)
                         /\ Utf8From(s, i + 3)
           [] (b >= 225 /\ b <= 236) \/ b = 238 \/ b = 239 ->
                 Cont(s, i + 1) /\ Cont(s, i + 2) /\ Utf8From(s, i + 3)
           [] b = 237 -> InRange(s, i + 1, 128, 159) /\ Cont(s, i + 2)
                         /\ Utf8From(s, i + 3)
           [] b = 240 -> InRange(s, i + 1, 144, 191) /\ Cont(s, i + 2)
                         /\ Cont(s, i + 3) /\ Utf8From(s, i + 4)
           [] b >= 241 /\ b <= 243 -> Cont(s, i + 1) /\ Cont(s, i + 2)
                         /\ Cont(s, i + 3) /\ Utf8From(s, i + 4)
           [] b = 244 -> InRange(s, i + 1, 128, 143) /\ Cont(s, i + 2)
                         /\ Cont(s, i + 3) /\ Utf8From(s, i + 4)
           [] OTHER -> FALSE

Utf8Valid(s) == Utf8From(s, 1)

\* number of characters (scalar values) of a well-formed UTF-8 string
CharCount(s) == Cardinality({i \in 1..Len(s) : ~(s[i] >= 128 /\ s[i] <= 191)})

\* hex::encode: two lower-case digits per byte
HexDigit(n) == IF n < 10 THEN 48 + n ELSE 87 + n

HexEncode(bytes) ==
    [i \in 1..(2 * Len(bytes)) |->
        IF i % 2 = 1 THEN HexDigit(bytes[(i + 1) \div 2] \div 16)
        ELSE HexDigit(bytes[i \div 2] % 16)]

\* str::to_uppercase on ASCII text
ToUppercase(s) ==
    [i \in 1..Len(s) |-> IF s[i] >= 97 /\ s[i] <= 122 THEN s[i] - 32 ELSE s[i]]

\* u8::eq_ignore_ascii_case on whole strings
ToAsciiLower(c) == IF c >= 65 /\ c <= 90 THEN c + 32 ELSE c

EqIgnoreAsciiCase(a, b) ==
    /\ Len(a) = Len(b)
    /\ \A i \in 1..Len(a) : ToAsciiLower(a[i]) = ToAsciiLower(b[i])

\* format!("{}", n) of an unsigned integer
RECURSIVE Decimal(_)
Decimal(n) == IF n < 10 THEN <<48 + n>> ELSE Decimal(n \div 10) \o <<48 + (n % 10)>>

(***************************************************************************)
(* windows.rs: extract_debug_name, encode_guid.                            *)
(***************************************************************************)
\* a variant that cuts the name after the zero byte (name[..=name_end])
extract_debug_name_inclusive(name) ==
    LET zeros == {i \in 1..Len(name) : name[i] = 0} IN
    IF zeros = {} THEN None
    ELSE LET raw == SubSeq(name, 1, MinOf(zeros)) IN
         IF Utf8Valid(raw) THEN Some(raw) ELSE None

extract_debug_name(name) ==
    LET zeros == {i \in 1..Len(name) : name[i] = 0} IN
    IF zeros = {} THEN None
    ELSE LET name_end == MinOf(zeros) - 1
             raw == SubSeq(name, 1, name_end)
         IN  IF Utf8Valid(raw) THEN Some(raw) ELSE None

\* a variant that reverses the first field only
GuidOrderFirstFieldOnly(wg) ==
    <<wg[4], wg[3], wg[2], wg[1], wg[5], wg[6], wg[7], wg[8], wg[9], wg[10], wg[11],
      wg[12], wg[13], wg[14], wg[15], wg[16]>>

\* wg is the 16-byte array; TLA+ sequences are 1-based, so wg[3] of the source
\* is wg[4] here
GuidOrder(wg) ==
    <<wg[4], wg[3], wg[2], wg[1], wg[6], wg[5], wg[8], wg[7], wg[9], wg[10], wg[11],
      wg[12], wg[13], wg[14], wg[15], wg[16]>>

encode_guid(wg) == ToUppercase(HexEncode(GuidOrder(wg)))

(***************************************************************************)
(* windows.rs: the PE debug extractor.                                     *)
(*                                                                         *)
(* A file is [name, is_dir, readable, debug_dir, pointer_to_raw_data,      *)
(* bytes]: its directory entry name, whether the entry is a directory,     *)
(* whether VecPE::from_file succeeds on it, whether DebugDirectory::parse  *)
(* succeeds on the image (both belong to the exe crate), the raw-data      *)
(* offset the parsed directory reports, and the bytes of the image.        *)
(***************************************************************************)
\* Buffer::get_ref::<DDRaw>(offset): the record must lie inside the image
get_ref(bytes, offset) ==
    IF offset + DDRawSize <= Len(bytes)
    THEN Some([magic |-> SubSeq(bytes, offset + 1, offset + MagicLen),
               guid  |-> SubSeq(bytes, offset + MagicLen + 1, offset + MagicLen + GuidLen),
               age   |-> SubSeq(bytes, offset + MagicLen + GuidLen + 1,
                                offset + MagicLen + GuidLen + AgeLen),
               name  |-> SubSeq(bytes, offset + MagicLen + GuidLen + AgeLen + 1,
                                offset + DDRawSize)])
    ELSE None

\* the u32 field age, little-endian
U32LE(b) == b[1] + 256 * b[2] + 65536 * b[3] + 16777216 * b[4]

get_hash_and_pdb_name(file) ==
    IF ~file.readable THEN None
    ELSE IF ~file.debug_dir THEN None
    ELSE LET dd == get_ref(file.bytes, file.pointer_to_raw_data) IN
         IF dd = None THEN None
         ELSE LET debug_name == extract_debug_name(dd[1].name) IN
              IF debug_name = None THEN None
              ELSE IF Len(debug_name[1]) < MIN_PDB_NAME_LEN THEN None
              ELSE Some([name |-> debug_name[1],
                         guid |-> encode_guid(dd[1].guid),
                         age  |-> U32LE(dd[1].age)])

\* a variant that leaves the loop at the first file without identifier
RECURSIVE get_hash_and_pdb_names_break(_)
get_hash_and_pdb_names_break(files) ==
    IF files = <<>> THEN <<>>
    ELSE LET hnp == get_hash_and_pdb_name(Head(files)) IN
         IF hnp = None THEN <<>>
         ELSE <<hnp[1]>> \o get_hash_and_pdb_names_break(Tail(files))

RECURSIVE get_hash_and_pdb_names(_)
get_hash_and_pdb_names(files) ==
    IF files = <<>> THEN <<>>
    ELSE LET hnp == get_hash_and_pdb_name(Head(files)) IN
         IF hnp = None THEN get_hash_and_pdb_names(Tail(files))
         ELSE <<hnp[1]>> \o get_hash_and_pdb_names(Tail(files))

(***************************************************************************)
(* windows.rs: the extension filter.                                       *)
(***************************************************************************)
AllowedExtensions ==
    << <<100, 108, 108>>, <<101, 120, 101>>, <<115, 121, 115>>, <<100, 114, 118>>,
       <<99, 112, 108>>, <<109, 117, 105>>, <<111, 99, 120>> >>

\* Path::extension of a path whose file name is fname: the part after the last
\* dot, unless there is no dot or the only dot starts the name
Extension(fname) ==
    LET dots == {i \in 1..Len(fname) : fname[i] = 46} IN
    IF dots = {} \/ fname = <<46, 46>> THEN None
    ELSE LET d == CHOOSE i \in dots : \A j \in dots : j <= i IN
         IF d = 1 THEN None ELSE Some(SubSeq(fname, d + 1, Len(fname)))

\* a variant that compares the extension as written
IsWantedCaseSensitive(file) ==
    LET ext == Extension(file.name) IN
    IF ext = None THEN FALSE
    ELSE \E k \in 1..Len(AllowedExtensions) : ext[1] = AllowedExtensions[k]

\* the predicate of the closure passed to map
IsWanted(file) ==
    LET ext == Extension(file.name) IN
    IF ext = None THEN FALSE
    ELSE IF ~Utf8Valid(ext[1]) THEN FALSE
    ELSE \E k \in 1..Len(AllowedExtensions) :
            EqIgnoreAsciiCase(ext[1], AllowedExtensions[k])

\* Result<Vec<PathBuf>, io::Error>: [ok, val]
get_files_in_system32(entries, outcome) ==
    IF outcome # "ok" THEN [ok |-> FALSE, val |-> <<>>]
    ELSE [ok |-> TRUE, val |-> SelectSeq(entries, IsWanted)]

fetch_system32_pdbs(entries, outcome) ==
    LET files == get_files_in_system32(entries, outcome) IN
    IF ~files.ok THEN files
    ELSE [ok |-> TRUE, val |-> get_hash_and_pdb_names(files.val)]

(***************************************************************************)
(* main.rs: paths.  A path is [abs, comps]: whether it starts at the root, *)
(* and its components.  The names of the model hold no "." or ".."         *)
(* component.                                                              *)
(***************************************************************************)
RECURSIVE Components(_)
Components(s) ==
    IF s = <<>> THEN <<>>
    ELSE IF s[1] = 47 THEN Components(Tail(s))
    ELSE LET seps == {i \in 1..Len(s) : s[i] = 47}
             n == IF seps = {} THEN Len(s) ELSE MinOf(seps) - 1
         IN  <<SubSeq(s, 1, n)>> \o Components(SubSeq(s, n + 1, Len(s)))

\* PathBuf::from(text)
PathFrom(s) == [abs |-> s # <<>> /\ s[1] = 47, comps |-> Components(s)]

\* Path::join: an absolute argument replaces the base
Join(base, p) ==
    IF p.abs THEN p ELSE [abs |-> base.abs, comps |-> base.comps \o p.comps]

\* format!("pdbs/{}/{}{}/", pdb.name, pdb.guid, pdb.age)
FolderText(pdb) ==
    <<112, 100, 98, 115, 47>> \o pdb.name \o <<47>> \o pdb.guid \o Decimal(pdb.age)
    \o <<47>>

pdb_folder(pdb) == PathFrom(FolderText(pdb))

pdb_path(pdb) == Join(pdb_folder(pdb), PathFrom(pdb.name))

Exists(disk, p) == p.comps = <<>> \/ p \in disk

Parent(p) == [abs |-> p.abs, comps |-> SubSeq(p.comps, 1, Len(p.comps) - 1)]

\* fs::create_dir_all when it succeeds
create_dir_all(disk, p) ==
    disk \cup {[abs |-> p.abs, comps |-> SubSeq(p.comps, 1, n)] : n \in 1..Len(p.comps)}

(***************************************************************************)
(* Inputs: images and System32 entries.                                    *)
(***************************************************************************)
Filler(n, b) == [i \in 1..n |-> b]

\* the 255-byte name field: content, then padding
NameField(content, pad) == content \o Filler(NameFieldLen - Len(content), pad)

\* the bytes of a DDRaw, in field order
RecordBytes(magic, guid, age, name) == magic \o guid \o age \o name

\* an image: 8 bytes in front of the record, which pointer_to_raw_data skips
ImageBytes(record) == Filler(8, 77) \o record

File(name, is_dir, readable, debug_dir, ptr, bytes) ==
    [name |-> name, is_dir |-> is_dir, readable |-> readable, debug_dir |-> debug_dir,
     pointer_to_raw_data |-> ptr, bytes |-> bytes]

Rsds == <<82, 83, 68, 83>>
Guid1 == <<1, 2, 3, 4, 5, 6, 7, 8, 9, 10, 11, 12, 13, 14, 15, 16>>

\* a well-formed image whose record names pdbName, with age 1
GoodFile(fname, pdbName) ==
    File(fname, FALSE, TRUE, TRUE, 8,
         ImageBytes(RecordBytes(Rsds, Guid1, <<1, 0, 0, 0>>, NameField(pdbName, 0))))

\* a.dll -> a.pdb; b.exe -> /a.pdb (an absolute debug path); e.DLL -> a.pdb again;
\* c.sys is no PE image; d.txt is a PE image that the filter leaves out
MainEntries ==
    { GoodFile(<<97, 46, 100, 108, 108>>, <<97, 46, 112, 100, 98>>),
      GoodFile(<<98, 46, 101, 120, 101>>, <<47, 97, 46, 112, 100, 98>>),
      GoodFile(<<101, 46, 68, 76, 76>>, <<97, 46, 112, 100, 98>>),
      File(<<99, 46, 115, 121, 115>>, FALSE, TRUE, FALSE, 0, Filler(8, 77)),
      GoodFile(<<100, 46, 116, 120, 116>>, <<100, 46, 112, 100, 98>>) }

\* the listings of at most n distinct entries of S
Listings(S, n) ==
    {l \in UNION {[1..k -> S] : k \in 0..n} :
        \A i, j \in 1..Len(l) : i # j => l[i].name # l[j].name}

(***************************************************************************)
(* The HTTP exchange of one attempt.                                       *)
(***************************************************************************)
NoOutcome == [kind |-> "none", status |-> 0, readable |-> FALSE]
TransportError == [kind |-> "err", status |-> 0, readable |-> FALSE]
Responses == {[kind |-> "resp", status |-> st, readable |-> r] :
                 st \in {200, 404, 500}, r \in BOOLEAN}

\* the body the server sends with a status
Body(status) == IF status = 200 THEN <<77, 105, 99, 114>> ELSE <<status>>

\* response.bytes().unwrap_or_default().to_vec()
Payload(resp) == IF resp.readable THEN Body(resp.status) ELSE <<>>

IdleDownload ==
    /\ attempts = 0
    /\ delay = 1
    /\ fetched = 0
    /\ slept = <<>>
    /\ last = NoOutcome
    /\ result = None

(***************************************************************************)
(* main.rs and PdbMeta::download, step by step.                            *)
(***************************************************************************)
Init ==
    /\ dir \in Listings(MainEntries, MaxFiles)
    /\ listing \in {"ok", "open_err", "entry_err"}
    /\ pc = "start"
    /\ pdbs = <<>>
    /\ idx = 1
    /\ fs = {}
    /\ IdleDownload
    /\ input = <<>>
    /\ output = <<>>

\* main.rs:19, windows.fetch_system32_pdbs().unwrap()
FetchSystem32Pdbs ==
    /\ pc = "start"
    /\ LET r == fetch_system32_pdbs(dir, listing) IN
       IF r.ok THEN pdbs' = r.val /\ pc' = "loop"
       ELSE pdbs' = pdbs /\ pc' = "panicked"
    /\ UNCHANGED <<dir, listing, idx, fs, dlVars, fnVars>>

\* main.rs:20-27, a pdb whose pdb_path exists is skipped
SkipExisting ==
    /\ pc = "loop"
    /\ idx <= Len(pdbs)
    /\ Exists(fs, pdb_path(pdbs[idx]))
    /\ idx' = idx + 1
    /\ UNCHANGED <<dir, listing, pc, pdbs, fs, dlVars, fnVars>>

\* main.rs:28 and windows.rs:40-49, download is entered
StartDownload ==
    /\ pc = "loop"
    /\ idx <= Len(pdbs)
    /\ ~Exists(fs, pdb_path(pdbs[idx]))
    /\ pc' = "fetch"
    /\ attempts' = 0
    /\ delay' = 1
    /\ fetched' = 0
    /\ slept' = <<>>
    /\ last' = NoOutcome
    /\ result' = None
    /\ UNCHANGED <<dir, listing, pdbs, idx, fs, fnVars>>

\* a variant that retries a response whose status is not 200
FetchOkChecksStatus ==
    /\ pc = "fetch"
    /\ attempts < max_attempts
    /\ \E resp \in Responses :
          /\ last' = resp
          /\ IF resp.status = 200
             THEN result' = Some(Payload(resp)) /\ pc' = "ret"
             ELSE result' = result /\ pc' = "sleep"
    /\ fetched' = fetched + 1
    /\ UNCHANGED <<dir, listing, pdbs, idx, fs, attempts, delay, slept, fnVars>>

\* a variant that retries a response whose body cannot be read
FetchOkUnreadableRetries ==
    /\ pc = "fetch"
    /\ attempts < max_attempts
    /\ \E resp \in Responses :
          /\ last' = resp
          /\ IF resp.readable
             THEN result' = Some(Payload(resp)) /\ pc' = "ret"
             ELSE result' = result /\ pc' = "sleep"
    /\ fetched' = fetched + 1
    /\ UNCHANGED <<dir, listing, pdbs, idx, fs, attempts, delay, slept, fnVars>>

\* windows.rs:50-55, an attempt that gets a response
FetchOk ==
    /\ pc = "fetch"
    /\ attempts < max_attempts
    /\ \E resp \in Responses :
          /\ last' = resp
          /\ result' = Some(Payload(resp))
    /\ fetched' = fetched + 1
    /\ pc' = "ret"
    /\ UNCHANGED <<dir, listing, pdbs, idx, fs, attempts, delay, slept, fnVars>>

\* windows.rs:50-51 and 56-62, an attempt that fails in transport
FetchErr ==
    /\ pc = "fetch"
    /\ attempts < max_attempts
    /\ last' = TransportError
    /\ fetched' = fetched + 1
    /\ pc' = "sleep"
    /\ UNCHANGED <<dir, listing, pdbs, idx, fs, attempts, delay, slept, result, fnVars>>

\* a variant whose delay grows by one second
BackoffLinear ==
    /\ pc = "sleep"
    /\ slept' = Append(slept, delay)
    /\ delay' = delay + 1
    /\ attempts' = attempts + 1
    /\ pc' = "fetch"
    /\ UNCHANGED <<dir, listing, pdbs, idx, fs, fetched, last, result, fnVars>>

\* windows.rs:63-65
Backoff ==
    /\ pc = "sleep"
    /\ slept' = Append(slept, delay)
    /\ delay' = delay * 2
    /\ attempts' = attempts + 1
    /\ pc' = "fetch"
    /\ UNCHANGED <<dir, listing, pdbs, idx, fs, fetched, last, result, fnVars>>

\* windows.rs:50 and 69-73, the loop condition fails
Exhausted ==
    /\ pc = "fetch"
    /\ ~(attempts < max_attempts)
    /\ result' = None
    /\ pc' = "ret"
    /\ UNCHANGED <<dir, listing, pdbs, idx, fs, attempts, delay, fetched, slept, last,
                   fnVars>>

\* the locals of download are dropped when main goes on
DropDownload ==
    /\ attempts' = 0
    /\ delay' = 1
    /\ fetched' = 0
    /\ slept' = <<>>
    /\ last' = NoOutcome
    /\ result' = None

\* main.rs:29-32
DownloadFailed ==
    /\ pc = "ret"
    /\ result = None
    /\ idx' = idx + 1
    /\ pc' = "loop"
    /\ DropDownload
    /\ UNCHANGED <<dir, listing, pdbs, fs, fnVars>>

\* the disk once main.rs:33-36 went through
WithFolder(disk, pdb) ==
    IF Exists(disk, pdb_folder(pdb)) THEN disk ELSE create_dir_all(disk, pdb_folder(pdb))

\* main.rs:33-37, the folder is created and the file written
StoreOk ==
    /\ pc = "ret"
    /\ result # None
    /\ Exists(WithFolder(fs, pdbs[idx]), Parent(pdb_path(pdbs[idx])))
    /\ fs' = WithFolder(fs, pdbs[idx]) \cup {pdb_path(pdbs[idx])}
    /\ idx' = idx + 1
    /\ pc' = "loop"
    /\ DropDownload
    /\ UNCHANGED <<dir, listing, pdbs, fnVars>>

\* main.rs:33-36, create_dir_all fails and unwrap_or_else panics
CreateDirPanic ==
    /\ pc = "ret"
    /\ result # None
    /\ ~Exists(fs, pdb_folder(pdbs[idx]))
    /\ pc' = "panicked"
    /\ UNCHANGED <<dir, listing, pdbs, idx, fs, dlVars, fnVars>>

\* main.rs:37, fs::write fails and expect panics
WritePanic ==
    /\ pc = "ret"
    /\ result # None
    /\ fs' = WithFolder(fs, pdbs[idx])
    /\ pc' = "panicked"
    /\ UNCHANGED <<dir, listing, pdbs, idx, dlVars, fnVars>>

\* main.rs:38, the for loop ends
Finish ==
    /\ pc = "loop"
    /\ idx > Len(pdbs)
    /\ pc' = "done"
    /\ UNCHANGED <<dir, listing, pdbs, idx, fs, dlVars, fnVars>>

Next ==
    \/ FetchSystem32Pdbs
    \/ SkipExisting
    \/ StartDownload
    \/ FetchOk
    \/ FetchErr
    \/ Backoff
    \/ Exhausted
    \/ DownloadFailed
    \/ StoreOk
    \/ CreateDirPanic
    \/ WritePanic
    \/ Finish

Spec == Init /\ [][Next]_vars

(***************************************************************************)
(* Function specifications: Init draws the argument, one action applies    *)
(* the function.  main does not run in them.                               *)
(***************************************************************************)
IdleMain ==
    /\ dir = <<>>
    /\ listing = "ok"
    /\ pc = "fn"
    /\ pdbs = <<>>
    /\ idx = 1
    /\ fs = {}
    /\ IdleDownload

\* ---- encode_guid ----
GuidTails ==
    { <<9, 10, 11, 12, 13, 14, 15, 16>>, Filler(8, 0), Filler(8, 255),
      <<254, 220, 186, 152, 118, 84, 50, 16>> }

GuidInputs ==
    {h \o t : h \in [1..8 -> {0, 255}] \cup {[i \in 1..8 |-> 16 * i + (i + 8)]},
              t \in GuidTails}
    \cup {[i \in 1..8 |-> IF i = k THEN 171 ELSE i] \o <<9, 10, 11, 12, 13, 14, 15, 16>> :
              k \in 0..8}

InitGuid ==
    /\ IdleMain
    /\ input \in GuidInputs
    /\ output = <<>>

EncodeGuid ==
    /\ output = <<>>
    /\ output' = Some(encode_guid(input))
    /\ UNCHANGED <<mainVars, dlVars, input>>

SpecGuid == InitGuid /\ [][EncodeGuid]_vars

\* ---- the name field: extract_debug_name and the length test ----
NameBytes == {0, 97, 195, 169, 255}

NameInputs ==
    {File(<<97, 46, 100, 108, 108>>, FALSE, TRUE, TRUE, 8,
          ImageBytes(RecordBytes(Rsds, Guid1, <<3, 0, 0, 0>>, NameField(c, pad)))) :
        c \in [1..MaxNameBytes -> NameBytes], pad \in {0, 46}}

InitName ==
    /\ IdleMain
    /\ input \in NameInputs
    /\ output = <<>>

\* windows.rs:110-118 on the image, beside the whole of get_hash_and_pdb_name
ExtractName ==
    /\ output = <<>>
    /\ output' = Some([name |-> extract_debug_name(
                                   get_ref(input.bytes, input.pointer_to_raw_data)[1].name),
                       pdb  |-> get_hash_and_pdb_name(input)])
    /\ UNCHANGED <<mainVars, dlVars, input>>

SpecName == InitName /\ [][ExtractName]_vars

\* ---- get_hash_and_pdb_name(s) ----
ShortRecord == RecordBytes(Rsds, Guid1, <<2, 1, 0, 0>>, NameField(<<97, 46, 112>>, 0))
FourRecord == RecordBytes(Rsds, Guid1, <<2, 1, 0, 0>>, NameField(<<97, 46, 112, 100>>, 0))
LongRecord ==
    RecordBytes(<<0, 0, 0, 0>>, Filler(16, 255), <<3, 0, 0, 0>>,
                NameField(<<110, 116, 100, 108, 108, 46, 112, 100, 98>>, 0))

ExtractFiles ==
    { \* well-formed: exact fit, trailing bytes, record at offset 0
      File(<<49>>, FALSE, TRUE, TRUE, 8, ImageBytes(FourRecord)),
      File(<<50>>, FALSE, TRUE, TRUE, 8, ImageBytes(LongRecord) \o <<1, 2>>),
      File(<<51>>, FALSE, TRUE, TRUE, 0, LongRecord),
      \* VecPE::from_file fails; DebugDirectory::parse fails
      File(<<52>>, FALSE, FALSE, TRUE, 8, ImageBytes(LongRecord)),
      File(<<53>>, FALSE, TRUE, FALSE, 8, ImageBytes(LongRecord)),
      \* the record ends one byte after the image; the offset is past the image
      File(<<54>>, FALSE, TRUE, TRUE, 9, ImageBytes(LongRecord)),
      File(<<55>>, FALSE, TRUE, TRUE, 4000, ImageBytes(LongRecord)),
      \* no zero byte; not UTF-8; 3 bytes
      File(<<56>>, FALSE, TRUE, TRUE, 8,
           ImageBytes(RecordBytes(Rsds, Guid1, <<1, 0, 0, 0>>, Filler(NameFieldLen, 97)))),
      File(<<57>>, FALSE, TRUE, TRUE, 8,
           ImageBytes(RecordBytes(Rsds, Guid1, <<1, 0, 0, 0>>,
                                  NameField(<<97, 98, 99, 100, 255, 101>>, 0)))),
      File(<<58>>, FALSE, TRUE, TRUE, 8, ImageBytes(ShortRecord)) }

InitExtract ==
    /\ IdleMain
    /\ input \in Listings(ExtractFiles, MaxFiles)
    /\ output = <<>>

GetHashAndPdbNames ==
    /\ output = <<>>
    /\ output' = Some(get_hash_and_pdb_names(input))
    /\ UNCHANGED <<mainVars, dlVars, input>>

SpecExtract == InitExtract /\ [][GetHashAndPdbNames]_vars

\* ---- get_files_in_system32 ----
Suffixes ==
    { <<>>, <<46>>, <<100, 108, 108>>,
      <<46, 100, 108, 108>>, <<46, 68, 76, 76>>, <<46, 100, 76, 108>>,
      <<46, 101, 120, 101>>, <<46, 69, 88, 69>>, <<46, 115, 121, 115>>,
      <<46, 100, 114, 118>>, <<46, 99, 112, 108>>, <<46, 109, 117, 105>>,
      <<46, 77, 85, 73>>, <<46, 111, 99, 120>>, <<46, 116, 120, 116>>,
      <<46, 100, 108>>, <<46, 100, 108, 108, 115>>, <<46, 100, 108, 108, 46>>,
      <<46, 100, 255, 108>>, <<46, 100, 108, 108, 46, 116, 120, 116>>,
      <<46, 116, 120, 116, 46, 115, 89, 115>> }

Stems == UNION {[1..k -> {102, 46}] : k \in 0..MaxStem}

EntryNames == {st \o su : st \in Stems, su \in Suffixes} \ {<<>>, <<46>>, <<46, 46>>}

Entry(name, is_dir) == File(name, is_dir, TRUE, FALSE, 0, <<>>)

OtherEntry == Entry(<<120, 46, 101, 120, 101>>, FALSE)

FilterInputs ==
    {[entries |-> l, outcome |-> o] :
        l \in UNION {{<<e>>, <<e, OtherEntry>>, <<OtherEntry, e>>} :
                         e \in {Entry(n, d) : n \in EntryNames, d \in BOOLEAN}},
        o \in {"ok", "open_err", "entry_err"}}

InitFilter ==
    /\ IdleMain
    /\ input \in FilterInputs
    /\ output = <<>>

GetFilesInSystem32 ==
    /\ output = <<>>
    /\ output' = Some(get_files_in_system32(input.entries, input.outcome))
    /\ UNCHANGED <<mainVars, dlVars, input>>

SpecFilter == InitFilter /\ [][GetFilesInSystem32]_vars

(***************************************************************************)
(* Properties of PdbMeta::download, under Spec.                            *)
(***************************************************************************)
\* C1: when every attempt of a download fails in transport, exactly 5 attempts
\* are made, the delays waited before attempts 2, 3, 4, 5 are 1, 2, 4, 8 seconds,
\* and the call returns None without a 6th attempt.
C1_FiveAttemptsBackoff ==
    /\ fetched <= 5
    /\ (pc = "fetch" /\ fetched < 5) => slept = SubSeq(<<1, 2, 4, 8>>, 1, fetched)
    /\ (pc = "ret" /\ last = TransportError) =>
          /\ fetched = 5
          /\ result = None
          /\ SubSeq(slept, 1, 4) = <<1, 2, 4, 8>>
    /\ (pc = "ret" /\ result = None) => (last = TransportError /\ fetched = 5)

C1_Witness == pc = "ret" /\ last = TransportError /\ fetched = 5 /\ result = None

\* C2: once an attempt receives a response, whatever its status, the call has
\* returned Some right after it: every wait of the call came before that
\* attempt, one per failed attempt, and nothing was retried.
C2_AnyResponseEndsCall ==
    last.kind = "resp" =>
        /\ pc \in {"ret", "panicked"}
        /\ result # None
        /\ Len(slept) = fetched - 1

C2_Witness ==
    /\ pc = "ret"
    /\ last.kind = "resp"
    /\ last.status = 404
    /\ fetched = 5
    /\ result # None

\* C3: a response whose body cannot be read makes the call return Some of an
\* empty buffer; it is not counted as a failure, not waited for, not retried.
C3_UnreadableBodyIsEmpty ==
    (last.kind = "resp" /\ ~last.readable) =>
        /\ pc \in {"ret", "panicked"}
        /\ result = Some(<<>>)
        /\ Len(slept) = fetched - 1
        /\ attempts = fetched - 1

C3_Witness ==
    /\ pc = "ret"
    /\ last.kind = "resp"
    /\ ~last.readable
    /\ last.status = 200
    /\ fetched = 2
    /\ result = Some(<<>>)

\* C10 (as claimed): every wait separates two attempts, so a call that has
\* returned waited fewer times than it fetched, and never more than 4 times.
C10_WaitsSeparateAttempts ==
    /\ Len(slept) <= 4
    /\ pc = "ret" => Len(slept) < fetched

(***************************************************************************)
(* Properties of main, under Spec.                                         *)
(***************************************************************************)
\* the destination the claim names: pdbs/{name}/{guid}{age}/{name}
ClaimedDestination(pdb) ==
    PathFrom(<<112, 100, 98, 115, 47>> \o pdb.name \o <<47>> \o pdb.guid
             \o Decimal(pdb.age) \o <<47>> \o pdb.name)

\* C4 (as claimed): a request is issued for an identifier only if
\* pdbs/{name}/{guid}{age}/{name} does not exist when it is processed, and an
\* identifier whose destination exists is skipped.
C4_RequestOnlyIfDestinationMissing ==
    /\ (pc \in {"fetch", "sleep", "ret"} /\ fetched > 0) =>
          ~Exists(fs, ClaimedDestination(pdbs[idx]))
    /\ (pc = "loop" /\ idx <= Len(pdbs) /\ Exists(fs, ClaimedDestination(pdbs[idx]))) =>
          ENABLED SkipExisting

\* C5 (as claimed): only a failure to list System32 aborts the run.
C5_OnlyListingFailureAborts == pc = "panicked" => listing # "ok"

(***************************************************************************)
(* C8, under SpecGuid.                                                     *)
(***************************************************************************)
HexValue(c) == IF c <= 57 THEN c - 48 ELSE c - 55

\* the order the claim gives, 0-based
ClaimedOrder == <<3, 2, 1, 0, 5, 4, 7, 6, 8, 9, 10, 11, 12, 13, 14, 15>>

\* C8: encode_guid returns 32 upper-case hexadecimal characters, the encoding of
\* b[3],b[2],b[1],b[0],b[5],b[4],b[7],b[6],b[8],...,b[15].
C8_GuidEncoding ==
    output # <<>> =>
        LET g == output[1] IN
        /\ Len(g) = 32
        /\ \A i \in 1..32 : g[i] \in (48..57) \cup (65..70)
        /\ \A k \in 0..15 :
              16 * HexValue(g[2 * k + 1]) + HexValue(g[2 * k + 2])
                 = input[ClaimedOrder[k + 1] + 1]

\* the example of the specification: 01 02 ... 10 gives 0403020106050807090A0B0C0D0E0F10
C8_Witness ==
    /\ input = Guid1
    /\ output = Some(<<48, 52, 48, 51, 48, 50, 48, 49, 48, 54, 48, 53, 48, 56, 48, 55,
                       48, 57, 48, 65, 48, 66, 48, 67, 48, 68, 48, 69, 48, 70, 49, 48>>)

(***************************************************************************)
(* C9, under SpecName.                                                     *)
(***************************************************************************)
\* the 255-byte name field of the record of an image
FieldOf(file) ==
    SubSeq(file.bytes, file.pointer_to_raw_data + 25, file.pointer_to_raw_data + 279)

HasZero(f) == \E i \in 1..Len(f) : f[i] = 0

\* the 0-based index of the first zero byte
FirstZero(f) == CHOOSE k \in 0..(Len(f) - 1) : f[k + 1] = 0 /\ \A j \in 1..k : f[j] # 0

NameRules(f, name, pdb) ==
    /\ Len(f) = 255
    /\ ~HasZero(f) => (name = None /\ pdb = None)
    /\ HasZero(f) =>
          LET k == FirstZero(f) IN
          /\ (name = None) <=> ~Utf8Valid(SubSeq(f, 1, k))
          /\ name # None => (Len(name[1]) = k /\ name[1] = SubSeq(f, 1, k))
          /\ pdb # None => (name # None /\ pdb[1].name = name[1])

\* C9 (amended): the name is the k bytes before the first zero byte when they
\* are UTF-8, there is no name and no identifier without a zero byte, and a
\* name yields an identifier exactly when it is at least 4 bytes long.
C9_NameBoundaryInBytes ==
    output # <<>> =>
        LET name == output[1].name
            pdb == output[1].pdb
        IN  /\ NameRules(FieldOf(input), name, pdb)
            /\ name # None => ((pdb = None) <=> (Len(name[1]) < 4))

C9_Witness ==
    /\ output # <<>>
    /\ output[1].name = Some(<<195, 169, 97>>)
    /\ output[1].pdb = None

\* C9 (as claimed): the same, with a name of fewer than 4 characters yielding no
\* identifier.
C9_NameBoundaryInCharacters ==
    output # <<>> =>
        LET name == output[1].name
            pdb == output[1].pdb
        IN  /\ NameRules(FieldOf(input), name, pdb)
            /\ (name # None /\ CharCount(name[1]) < 4) => pdb = None

(***************************************************************************)
(* C6, under SpecExtract.                                                  *)
(***************************************************************************)
WellFormed(file) ==
    /\ file.readable
    /\ file.debug_dir
    /\ file.pointer_to_raw_data + 279 <= Len(file.bytes)
    /\ HasZero(FieldOf(file))
    /\ Utf8Valid(SubSeq(FieldOf(file), 1, FirstZero(FieldOf(file))))
    /\ FirstZero(FieldOf(file)) >= 4

Identifier(file) ==
    LET at == file.pointer_to_raw_data IN
    [name |-> SubSeq(FieldOf(file), 1, FirstZero(FieldOf(file))),
     guid |-> encode_guid(SubSeq(file.bytes, at + 5, at + 20)),
     age  |-> U32LE(SubSeq(file.bytes, at + 21, at + 24))]

\* C6: every malformed file yields None, a file yields Some exactly when every
\* extraction step succeeds, and get_hash_and_pdb_names returns the identifiers
\* of the succeeding files in the order of the files.
C6_ExtractionNeverFails ==
    /\ \A i \in 1..Len(input) :
          IF WellFormed(input[i])
          THEN get_hash_and_pdb_name(input[i]) = Some(Identifier(input[i]))
          ELSE get_hash_and_pdb_name(input[i]) = None
    /\ output # <<>> =>
          LET good == SelectSeq(input, WellFormed) IN
          output[1] = [i \in 1..Len(good) |-> Identifier(good[i])]

C6_Witness ==
    /\ output # <<>>
    /\ Len(input) = 2
    /\ ~WellFormed(input[1])
    /\ WellFormed(input[2])
    /\ output[1] = <<Identifier(input[2])>>

(***************************************************************************)
(* C7, under SpecFilter.                                                   *)
(***************************************************************************)
ClaimedExtensions ==
    { <<100, 108, 108>>, <<101, 120, 101>>, <<115, 121, 115>>, <<100, 114, 118>>,
      <<99, 112, 108>>, <<109, 117, 105>>, <<111, 99, 120>> }

\* the entry name is <something>.<ext> with ext, in lower case, a claimed one
HasClaimedExtension(file) ==
    LET n == file.name IN
    /\ Len(n) >= 5
    /\ n[Len(n) - 3] = 46
    /\ [i \in 1..3 |-> ToAsciiLower(n[Len(n) - 3 + i])] \in ClaimedExtensions

\* C7: a listing that succeeds returns exactly the entries whose extension is,
\* ignoring ASCII case, one of dll, exe, sys, drv, cpl, mui, ocx, in listing order.
C7_FilterByExtension ==
    (output # <<>> /\ input.outcome = "ok") =>
        /\ output[1].ok
        /\ output[1].val = SelectSeq(input.entries, HasClaimedExtension)

C7_Witness ==
    /\ output # <<>>
    /\ output[1].ok
    /\ Len(input.entries) = 2
    /\ input.entries[1] = Entry(<<102, 46, 68, 76, 76>>, TRUE)
    /\ output[1].val = input.entries

====
